---- MODULE Spec2Model ----
(***************************************************************************)
(* Model of pkg/kubelet/kuberuntime/logs/filter_log.go:                    *)
(*   - circularLinkedList (newCircularLinkedList, Add, Len, VisitAll), a   *)
(*     singly linked circular list used as a ring buffer of indexItem;     *)
(*   - filterLogByStream, the single forward pass over a seekable log file *)
(*     that records offset/length of the last tailLines matching lines.    *)
(* The heap is a sequence of nodes: a pointer is an index into it, 0 is    *)
(* the nil pointer.  An error value is a sequence of strings: <<>> is nil, *)
(* fmt.Errorf("msg: %w", e) puts msg in front of e.                        *)
(***************************************************************************)
EXTENDS Integers, Sequences, FiniteSets, TLC

\* ---------------------------------------------------------------- bounds
MaxCap == 3        \* largest capacity of a ring exercised on its own
MaxAdds == 5       \* longest sequence of Add calls on a ring exercised on its own
MaxOffset == 1     \* largest offset of an item added to a ring exercised on its own
MaxInitLen == 5    \* longest log file at the start of a scan
MaxAppend == 1     \* bytes the concurrent writer appends during a scan
MaxTail == 2       \* largest tailLines
MaxManaged == 2    \* most managed-fields entries of an object given to Encode
MaxEncodes == 2    \* most Encode calls on the serializer
MaxLiveLen == 3    \* longest log file at the start of a scan checked for termination

\* ---------------------------------------------------------------- values
nil == <<>>
EOF == <<"EOF">>
EIO == <<"input/output error">>
ErrVisit == <<"visitor failed">>

Wrap(msg, e) == <<msg>> \o e

Min(a, b) == IF a < b THEN a ELSE b

indexItem == [offset : 0..MaxOffset, length : 1..2]

\* ------------------------------------------------------ circularLinkedList
emptyList ==
    [capacity |-> 0, length |-> 0, head |-> 0, current |-> 0, nodes |-> <<>>]

\* newCircularLinkedList that lets the capacity -1 through.
newCircularLinkedListOffByOne(cap) ==
    IF cap < -1
    THEN [list |-> emptyList, ok |-> FALSE, err |-> <<"invalid capacity">>]
    ELSE [list |-> [emptyList EXCEPT !.capacity = cap], ok |-> TRUE, err |-> nil]

newCircularLinkedList(cap) ==
    IF cap < 0
    THEN [list |-> emptyList, ok |-> FALSE, err |-> <<"invalid capacity">>]
    ELSE [list |-> [emptyList EXCEPT !.capacity = cap], ok |-> TRUE, err |-> nil]

\* Add that overwrites the current node when full, without advancing to the oldest.
AddOverwriteCurrent(lst, val) ==
    IF lst.capacity = 0 THEN lst
    ELSE IF lst.length = 0 THEN
        LET node == Len(lst.nodes) + 1 IN
        [lst EXCEPT !.nodes = Append(@, [value |-> val, next |-> node]),
                    !.head = node,
                    !.current = node,
                    !.length = 1]
    ELSE IF lst.length = lst.capacity THEN
        [lst EXCEPT !.nodes[lst.current].value = val]
    ELSE
        LET node == Len(lst.nodes) + 1 IN
        [lst EXCEPT !.length = @ + 1,
                    !.nodes = Append([@ EXCEPT ![lst.current].next = node],
                                     [value |-> val, next |-> lst.head]),
                    !.current = node]

\* Add without the early return for capacity 0.
AddNoCapacityCheck(lst, val) ==
    IF lst.length = 0 THEN
        LET node == Len(lst.nodes) + 1 IN
        [lst EXCEPT !.nodes = Append(@, [value |-> val, next |-> node]),
                    !.head = node,
                    !.current = node,
                    !.length = 1]
    ELSE IF lst.length = lst.capacity THEN
        LET cur == lst.nodes[lst.current].next IN
        [lst EXCEPT !.current = cur,
                    !.nodes[cur].value = val]
    ELSE
        LET node == Len(lst.nodes) + 1 IN
        [lst EXCEPT !.length = @ + 1,
                    !.nodes = Append([@ EXCEPT ![lst.current].next = node],
                                     [value |-> val, next |-> lst.head]),
                    !.current = node]

\* Add without the test for a full list: it appends a node every time.
AddAlwaysAppend(lst, val) ==
    IF lst.capacity = 0 THEN lst
    ELSE IF lst.length = 0 THEN
        LET node == Len(lst.nodes) + 1 IN
        [lst EXCEPT !.nodes = Append(@, [value |-> val, next |-> node]),
                    !.head = node,
                    !.current = node,
                    !.length = 1]
    ELSE
        LET node == Len(lst.nodes) + 1 IN
        [lst EXCEPT !.length = @ + 1,
                    !.nodes = Append([@ EXCEPT ![lst.current].next = node],
                                     [value |-> val, next |-> lst.head]),
                    !.current = node]

\* Add that writes the new value into the node after the oldest one when full.
AddOverwriteSecond(lst, val) ==
    IF lst.capacity = 0 THEN lst
    ELSE IF lst.length = 0 THEN
        LET node == Len(lst.nodes) + 1 IN
        [lst EXCEPT !.nodes = Append(@, [value |-> val, next |-> node]),
                    !.head = node,
                    !.current = node,
                    !.length = 1]
    ELSE IF lst.length = lst.capacity THEN
        LET cur == lst.nodes[lst.nodes[lst.current].next].next IN
        [lst EXCEPT !.current = cur,
                    !.nodes[cur].value = val]
    ELSE
        LET node == Len(lst.nodes) + 1 IN
        [lst EXCEPT !.length = @ + 1,
                    !.nodes = Append([@ EXCEPT ![lst.current].next = node],
                                     [value |-> val, next |-> lst.head]),
                    !.current = node]

\* Add whose appended node points back to the previous node, not to head.
AddNextToCurrent(lst, val) ==
    IF lst.capacity = 0 THEN lst
    ELSE IF lst.length = 0 THEN
        LET node == Len(lst.nodes) + 1 IN
        [lst EXCEPT !.nodes = Append(@, [value |-> val, next |-> node]),
                    !.head = node,
                    !.current = node,
                    !.length = 1]
    ELSE IF lst.length = lst.capacity THEN
        LET cur == lst.nodes[lst.current].next IN
        [lst EXCEPT !.current = cur,
                    !.nodes[cur].value = val]
    ELSE
        LET node == Len(lst.nodes) + 1 IN
        [lst EXCEPT !.length = @ + 1,
                    !.nodes = Append([@ EXCEPT ![lst.current].next = node],
                                     [value |-> val, next |-> lst.current]),
                    !.current = node]

Add(lst, val) ==
    IF lst.capacity = 0 THEN lst
    ELSE IF lst.length = 0 THEN
        LET node == Len(lst.nodes) + 1 IN
        [lst EXCEPT !.nodes = Append(@, [value |-> val, next |-> node]),
                    !.head = node,
                    !.current = node,
                    !.length = 1]
    ELSE IF lst.length = lst.capacity THEN
        LET cur == lst.nodes[lst.current].next IN
        [lst EXCEPT !.current = cur,
                    !.nodes[cur].value = val]
    ELSE
        LET node == Len(lst.nodes) + 1 IN
        [lst EXCEPT !.length = @ + 1,
                    !.nodes = Append([@ EXCEPT ![lst.current].next = node],
                                     [value |-> val, next |-> lst.head]),
                    !.current = node]

ListLen(lst) == lst.length

\* The loop of VisitAll that keeps the visitor's error and goes on to the end.
RECURSIVE VisitFromNoStop(_, _, _, _)
VisitFromNoStop(lst, p, i, failAt) ==
    IF i >= lst.length THEN [visited |-> <<>>, err |-> nil]
    ELSE LET r == VisitFromNoStop(lst, lst.nodes[p].next, i + 1, failAt) IN
         [visited |-> <<lst.nodes[p].value>> \o r.visited,
          err |-> IF i + 1 = failAt THEN ErrVisit ELSE r.err]

\* The loop of VisitAll from node p, i nodes already visited; the visitor
\* fails on its failAt-th invocation (never when failAt = 0).
RECURSIVE VisitFrom(_, _, _, _)
VisitFrom(lst, p, i, failAt) ==
    IF i >= lst.length THEN [visited |-> <<>>, err |-> nil]
    ELSE IF i + 1 = failAt THEN [visited |-> <<lst.nodes[p].value>>, err |-> ErrVisit]
    ELSE LET r == VisitFrom(lst, lst.nodes[p].next, i + 1, failAt) IN
         [visited |-> <<lst.nodes[p].value>> \o r.visited, err |-> r.err]

VisitAll(lst, failAt) ==
    IF lst.length = 0 THEN [visited |-> <<>>, err |-> nil]
    ELSE VisitFrom(lst, lst.nodes[lst.current].next, 0, failAt)

\* ------------------------------------------------------------------ state
VARIABLES
    l,              \* the circularLinkedList
    inserted,       \* every value passed to Add on a ring exercised on its own
    out,            \* the last call on that ring and what it returned
    file,           \* the bytes of the log file f
    rpos,           \* offset in f of the next byte the reader delivers
    appended,       \* number of bytes the writer appended since the start
    tailLines,      \* argument of filterLogByStream
    wantStream,     \* argument of filterLogByStream
    pc,             \* position of filterLogByStream
    curSize,        \* local of filterLogByStream
    readBytes,      \* local of filterLogByStream
    processedBytes, \* local of filterLogByStream
    maxLength,      \* local of filterLogByStream
    result,         \* returned *logFilterResult: <<>> is nil, else <<r>>
    err,            \* returned error
    calls,          \* the calls filterLogByStream made, in order
    run,            \* 1 in the caller's first call of filterLogByStream, 2 in its second
    prev,           \* what the first call returned
    heap,           \* the runtime.Objects: a pointer is an index, 0 is nil
    obj,            \* the object the caller passed to the last Encode
    inner,          \* the last call of inner.Encode: its object and its return
    encRet,         \* what the last Encode returned
    nEnc            \* number of Encode calls made

ringVars == <<inserted, out>>
scanVars == <<file, rpos, appended, tailLines, wantStream, pc, curSize,
              readBytes, processedBytes, maxLength, result, err, calls>>
callerVars == <<run, prev>>
encVars == <<heap, obj, inner, encRet, nEnc>>
vars == <<l, ringVars, scanVars, callerVars, encVars>>

noPrev == [result |-> <<>>, err |-> nil]
noInner == [obj |-> 0, seen |-> <<>>, ret |-> nil]

\* No second call and no serializer in use.
restIdle ==
    /\ run = 1
    /\ prev = noPrev
    /\ heap = <<>>
    /\ obj = 0
    /\ inner = noInner
    /\ encRet = nil
    /\ nEnc = 0

noCall == [op |-> "none", n |-> 0, visited |-> <<>>, err |-> nil]

\* --------------------------------------- the ring exercised on its own
InitRing ==
    /\ \E cap \in 0..MaxCap : l = newCircularLinkedList(cap).list
    /\ inserted = <<>>
    /\ out = noCall
    /\ file = <<>>
    /\ rpos = 0
    /\ appended = 0
    /\ tailLines = 0
    /\ wantStream = "stdout"
    /\ pc = "idle"
    /\ curSize = 0
    /\ readBytes = 0
    /\ processedBytes = 0
    /\ maxLength = 0
    /\ result = <<>>
    /\ err = nil
    /\ calls = <<>>
    /\ restIdle

RingAdd ==
    /\ Len(inserted) < MaxAdds
    /\ \E val \in indexItem :
        /\ l' = Add(l, val)
        /\ inserted' = Append(inserted, val)
    /\ out' = [noCall EXCEPT !.op = "Add"]
    /\ UNCHANGED <<scanVars, callerVars, encVars>>

RingLen ==
    /\ out' = [noCall EXCEPT !.op = "Len", !.n = ListLen(l)]
    /\ UNCHANGED <<l, inserted, scanVars, callerVars, encVars>>

RingVisitAll ==
    /\ \E failAt \in 0..MaxCap :
        LET r == VisitAll(l, failAt) IN
        out' = [noCall EXCEPT !.op = "VisitAll", !.visited = r.visited, !.err = r.err]
    /\ UNCHANGED <<l, inserted, scanVars, callerVars, encVars>>

NextRing == RingAdd \/ RingLen \/ RingVisitAll

SpecRing == InitRing /\ [][NextRing]_vars

\* ---------------------------------------------------- filterLogByStream
eol == "LF"
Byte == {"O", "E", eol}

Streams == {"stdout", "stderr"}

\* Index of the first delimiter in s, 0 when there is none.
FirstEol(s) ==
    IF \E i \in 1..Len(s) : s[i] = eol
    THEN CHOOSE i \in 1..Len(s) : s[i] = eol /\ \A j \in 1..(i - 1) : s[j] # eol
    ELSE 0

\* What br.ReadBytes(eol[0]) can return when the reader stands at offset pos
\* of the bytes f: the bytes through the first delimiter; or, when the file
\* holds no delimiter after pos, the remaining bytes with io.EOF; or, when the
\* underlying read fails, some of the bytes before the delimiter with that
\* error.  The returned bytes end with the delimiter iff the error is nil.
ReadBytes(f, pos) ==
    LET rest == SubSeq(f, pos + 1, Len(f))
        i == FirstEol(rest)
    IN  {IF i > 0 THEN [line |-> SubSeq(rest, 1, i), err |-> nil]
                  ELSE [line |-> rest, err |-> EOF]}
        \cup {[line |-> SubSeq(rest, 1, k), err |-> EIO] :
                k \in 0..(IF i > 0 THEN i - 1 ELSE Len(rest))}

\* The classifier of a complete line: the first byte of the line is its
\* stream tag; a line without a tag does not parse.
extractStreamFromLog(line) ==
    IF line[1] = "O" THEN [stream |-> "stdout", err |-> nil]
    ELSE IF line[1] = "E" THEN [stream |-> "stderr", err |-> nil]
    ELSE [stream |-> "", err |-> <<"unexpected stream type">>]

\* The truncation test with >= in place of >.
lineIncompleteAtSize(rerr, rb, cs) == rerr = EOF \/ rb >= cs

\* The truncation test that takes every read error for the end of the stream.
lineIncompleteAnyError(rerr, rb, cs) == rerr # nil \/ rb > cs

\* The truncation test without the comparison with the measured length.
lineIncompleteEOFOnly(rerr, rb, cs) == rerr = EOF

\* The truncation test without the comparison with io.EOF.
lineIncompletePastSizeOnly(rerr, rb, cs) == rb > cs

\* err == io.EOF || readBytes > curSize
lineIncomplete(rerr, rb, cs) == rerr = EOF \/ rb > cs

\* maxLength that keeps the length of the last matching line.
newMaxLengthLast(ml, lineLength) == lineLength

\* if lineLength > maxLength { maxLength = lineLength }
newMaxLength(ml, lineLength) == IF lineLength > ml THEN lineLength ELSE ml

\* The item with the offset of the end of the line.
newIndexItemEnd(pb, lineLength) == [offset |-> pb + lineLength, length |-> lineLength]

\* The item with its two fields exchanged.
newIndexItemSwapped(pb, lineLength) == [offset |-> lineLength, length |-> pb]

\* indexItem{offset: processedBytes, length: lineLength}
newIndexItem(pb, lineLength) == [offset |-> pb, length |-> lineLength]

\* processedBytes that leaves the delimiter out.
newProcessedBytesNoEol(pb, line) == pb + Len(line) - 1

\* processedBytes += int64(len(line))
newProcessedBytes(pb, line) == pb + Len(line)

call(op, arg, e) == [op |-> op, arg |-> arg, err |-> e]

logFilterResult(lst, ml, pb) ==
    [logIndex |-> lst, maxLogLength |-> ml, processedBytes |-> pb]

Init ==
    /\ l = emptyList
    /\ inserted = <<>>
    /\ out = noCall
    /\ file \in UNION {[1..n -> Byte] : n \in 0..MaxInitLen}
    /\ rpos = 0
    /\ appended = 0
    /\ tailLines \in (-1)..MaxTail
    /\ wantStream \in Streams
    /\ pc = "seekEnd"
    /\ curSize = 0
    /\ readBytes = 0
    /\ processedBytes = 0
    /\ maxLength = 0
    /\ result = <<>>
    /\ err = nil
    /\ calls = <<>>
    /\ restIdle

\* A return that hands out what was accumulated along with the error.
FailWithPartialResult(e) ==
    /\ pc' = "done"
    /\ result' = <<logFilterResult(l, maxLength, processedBytes)>>
    /\ err' = e

\* return nil, e
Fail(e) ==
    /\ pc' = "done"
    /\ result' = <<>>
    /\ err' = e

\* The first seek with io.SeekCurrent in place of io.SeekEnd.
SeekEndFromCurrent ==
    /\ pc = "seekEnd"
    /\ \/ /\ curSize' = rpos
          /\ rpos' = rpos
          /\ pc' = "seekStart"
          /\ calls' = Append(calls, call("Seek", <<"end">>, nil))
          /\ UNCHANGED <<result, err>>
       \/ /\ Fail(Wrap("seek to end of log file", EIO))
          /\ calls' = Append(calls, call("Seek", <<"end">>, EIO))
          /\ UNCHANGED <<curSize, rpos>>
    /\ UNCHANGED <<l, ringVars, callerVars, encVars, file, appended, tailLines, wantStream,
                   readBytes, processedBytes, maxLength>>

\* curSize, err := f.Seek(0, io.SeekEnd)
SeekEnd ==
    /\ pc = "seekEnd"
    /\ \/ /\ curSize' = Len(file)
          /\ rpos' = Len(file)
          /\ pc' = "seekStart"
          /\ calls' = Append(calls, call("Seek", <<"end">>, nil))
          /\ UNCHANGED <<result, err>>
       \/ /\ Fail(Wrap("seek to end of log file", EIO))
          /\ calls' = Append(calls, call("Seek", <<"end">>, EIO))
          /\ UNCHANGED <<curSize, rpos>>
    /\ UNCHANGED <<l, ringVars, callerVars, encVars, file, appended, tailLines, wantStream,
                   readBytes, processedBytes, maxLength>>

\* The seek to the start with its error dropped.
SeekStartErrorDropped ==
    /\ pc = "seekStart"
    /\ \/ /\ rpos' = 0
          /\ calls' = Append(calls, call("Seek", <<"start">>, nil))
       \/ /\ calls' = Append(calls, call("Seek", <<"start">>, EIO))
          /\ UNCHANGED rpos
    /\ pc' = "newList"
    /\ UNCHANGED <<l, ringVars, callerVars, encVars, file, appended, tailLines, wantStream, curSize,
                   readBytes, processedBytes, maxLength, result, err>>

\* _, err = f.Seek(0, io.SeekStart)
SeekStart ==
    /\ pc = "seekStart"
    /\ \/ /\ rpos' = 0
          /\ pc' = "newList"
          /\ calls' = Append(calls, call("Seek", <<"start">>, nil))
          /\ UNCHANGED <<result, err>>
       \/ /\ Fail(Wrap("seek to front of log file", EIO))
          /\ calls' = Append(calls, call("Seek", <<"start">>, EIO))
          /\ UNCHANGED rpos
    /\ UNCHANGED <<l, ringVars, callerVars, encVars, file, appended, tailLines, wantStream, curSize,
                   readBytes, processedBytes, maxLength>>

\* br := bufio.NewReader(f); l, err := newCircularLinkedList(int(tailLines))
NewList ==
    /\ pc = "newList"
    /\ LET r == newCircularLinkedList(tailLines) IN
       /\ calls' = Append(calls, call("newCircularLinkedList", <<>>, r.err))
       /\ IF r.ok
          THEN /\ l' = r.list
               /\ pc' = "read"
               /\ UNCHANGED <<result, err>>
          ELSE /\ Fail(r.err)
               /\ UNCHANGED l
    /\ UNCHANGED <<ringVars, callerVars, encVars, file, rpos, appended, tailLines, wantStream, curSize,
                   readBytes, processedBytes, maxLength>>

\* One iteration of the for loop, with the return that follows a break.
ScanLine ==
    /\ pc = "read"
    /\ \E r \in ReadBytes(file, rpos) :
        LET line == r.line
            lineLength == Len(line)
            rb == readBytes + lineLength
            readCall == call("ReadBytes", line, r.err)
        IN
        /\ rpos' = rpos + lineLength
        /\ readBytes' = rb
        /\ IF lineIncomplete(r.err, rb, curSize) THEN
              /\ pc' = "done"
              /\ result' = <<logFilterResult(l, maxLength, processedBytes)>>
              /\ err' = nil
              /\ calls' = Append(calls, readCall)
              /\ UNCHANGED <<l, processedBytes, maxLength>>
           ELSE IF r.err # nil THEN
              /\ Fail(Wrap("read line", r.err))
              /\ calls' = Append(calls, readCall)
              /\ UNCHANGED <<l, processedBytes, maxLength>>
           ELSE
              LET c == extractStreamFromLog(line)
                  both == calls \o <<readCall, call("extractStreamFromLog", line, c.err)>>
              IN
              /\ calls' = both
              /\ IF c.err # nil THEN
                    /\ Fail(c.err)
                    /\ UNCHANGED <<l, processedBytes, maxLength>>
                 ELSE
                    /\ IF c.stream = wantStream
                       THEN /\ maxLength' = newMaxLength(maxLength, lineLength)
                            /\ l' = Add(l, newIndexItem(processedBytes, lineLength))
                       ELSE UNCHANGED <<l, maxLength>>
                    /\ processedBytes' = newProcessedBytes(processedBytes, line)
                    /\ UNCHANGED <<pc, result, err>>
    /\ UNCHANGED <<ringVars, callerVars, encVars, file, appended, tailLines, wantStream, curSize>>

\* The process that writes the log appends a byte to the file.
WriterAppend ==
    /\ appended < MaxAppend
    /\ \E b \in Byte : file' = Append(file, b)
    /\ appended' = appended + 1
    /\ UNCHANGED <<l, ringVars, callerVars, encVars, rpos, tailLines, wantStream, pc, curSize,
                   readBytes, processedBytes, maxLength, result, err, calls>>

Next == SeekEnd \/ SeekStart \/ NewList \/ ScanLine \/ WriterAppend

Spec == Init /\ [][Next]_vars

\* The caller calls filterLogByStream a second time on the same f, which
\* nobody has written to, with the same arguments.  The first call left the offset of f somewhere between the
\* last byte it was handed and the end of the file, since br reads ahead.
Rescan ==
    /\ pc = "done"
    /\ run = 1
    /\ appended = 0
    /\ run' = 2
    /\ prev' = [result |-> result, err |-> err]
    /\ \E p \in rpos..Len(file) : rpos' = p
    /\ pc' = "seekEnd"
    /\ l' = emptyList
    /\ curSize' = 0
    /\ readBytes' = 0
    /\ processedBytes' = 0
    /\ maxLength' = 0
    /\ result' = <<>>
    /\ err' = nil
    /\ calls' = <<>>
    /\ UNCHANGED <<ringVars, encVars, file, appended, tailLines, wantStream>>

\* Nobody writes to the source during the two calls.
NextTwice == SeekEnd \/ SeekStart \/ NewList \/ ScanLine \/ Rescan

SpecTwice == Init /\ [][NextTwice]_vars

\* The goroutine that runs filterLogByStream keeps running: each of its steps
\* is taken when it stays enabled.  Nothing is assumed of the writer.
InitLive ==
    /\ Init
    /\ Len(file) <= MaxLiveLen

SpecLive ==
    /\ InitLive
    /\ [][Next]_vars
    /\ WF_vars(SeekEnd)
    /\ WF_vars(SeekStart)
    /\ WF_vars(NewList)
    /\ WF_vars(ScanLine)

\* ================================================================ claims
LastN(s, n) == SubSeq(s, Len(s) - n + 1, Len(s))

RECURSIVE SumLen(_)
SumLen(lines) == IF lines = <<>> THEN 0 ELSE Len(Head(lines)) + SumLen(Tail(lines))

\* The delimiter-terminated lines of s, in order; bytes after the last
\* delimiter belong to no line.
RECURSIVE SplitLines(_)
SplitLines(s) ==
    LET i == FirstEol(s) IN
    IF i = 0 THEN <<>>
    ELSE <<SubSeq(s, 1, i)>> \o SplitLines(SubSeq(s, i + 1, Len(s)))

\* The complete lines of the source: those that end with the delimiter at or
\* before the length measured at the start of the scan.
CompleteLines == SplitLines(SubSeq(file, 1, curSize))

Matches(line) == extractStreamFromLog(line).stream = wantStream

\* The records of the matching lines among lines, the first of which starts
\* at offset off.
RECURSIVE MatchRecords(_, _)
MatchRecords(lines, off) ==
    IF lines = <<>> THEN <<>>
    ELSE (IF Matches(Head(lines))
          THEN <<[offset |-> off, length |-> Len(Head(lines))]>>
          ELSE <<>>)
         \o MatchRecords(Tail(lines), off + Len(Head(lines)))

MaxOf(S) == IF S = {} THEN 0 ELSE CHOOSE m \in S : \A x \in S : x <= m

Success == pc = "done" /\ err = nil /\ result # <<>>

\* Indices in calls of the calls of op.
CallsOf(op) == {i \in 1..Len(calls) : calls[i].op = op}

\* Bytes returned by the ReadBytes calls among the first i calls.
RECURSIVE ReadUpTo(_)
ReadUpTo(i) ==
    IF i = 0 THEN <<>>
    ELSE ReadUpTo(i - 1) \o (IF calls[i].op = "ReadBytes" THEN calls[i].arg ELSE <<>>)

\* C1: on a freshly constructed ring of capacity C, after N Add calls Len()
\* is min(N, C) and VisitAll yields the last min(N, C) inserted items, oldest
\* first; the Len and VisitAll calls made return exactly that.
C1_LastNInInsertionOrder ==
    pc = "idle" =>
        LET n == Min(Len(inserted), l.capacity) IN
        /\ ListLen(l) = n
        /\ VisitAll(l, 0) = [visited |-> LastN(inserted, n), err |-> nil]
        /\ out.op = "Len" => out.n = n
        /\ (out.op = "VisitAll" /\ out.err = nil) => out.visited = LastN(inserted, n)

\* C1 witness: more Adds than capacity on a ring of capacity >= 2, whose items
\* are not all equal, followed by a VisitAll that ran to the end.
C1_Witness ==
    /\ pc = "idle"
    /\ l.capacity >= 2
    /\ Len(inserted) > l.capacity + 1
    /\ out.op = "VisitAll" /\ out.err = nil
    /\ Len(out.visited) = l.capacity
    /\ out.visited[1] # out.visited[2]

\* C2: after a successful scan the index holds the records of the last
\* min(tailLines, M) matching complete lines in chronological order, each
\* with the line's length and with the offset of the line in the source.
C2_IndexHoldsLastMatchingLines ==
    Success =>
        LET m == MatchRecords(CompleteLines, 0)
            k == Min(tailLines, Len(m))
        IN  /\ ListLen(result[1].logIndex) = k
            /\ VisitAll(result[1].logIndex, 0) = [visited |-> LastN(m, k), err |-> nil]

\* C2 witness: a successful scan that evicted a matching line and kept one
\* that follows a complete line of the other stream.
C2_Witness ==
    /\ Success
    /\ tailLines >= 1
    /\ Len(MatchRecords(CompleteLines, 0)) > tailLines
    /\ \E i \in 1..Len(CompleteLines) : ~Matches(CompleteLines[i])
    /\ VisitAll(result[1].logIndex, 0).visited[1].offset >= 4

\* C3: after a successful scan processedBytes is the sum of the lengths of
\* all complete lines, of either stream; the incomplete last line is left out.
C3_ProcessedBytesIsSumOfCompleteLines ==
    Success => result[1].processedBytes = SumLen(CompleteLines)

\* C3 witness: a successful scan over complete lines of both streams that
\* stopped at a non-empty incomplete line.
C3_Witness ==
    /\ Success
    /\ \E i, j \in 1..Len(CompleteLines) :
          Matches(CompleteLines[i]) /\ ~Matches(CompleteLines[j])
    /\ calls[Len(calls)].op = "ReadBytes"
    /\ calls[Len(calls)].arg # <<>>
    /\ result[1].processedBytes < readBytes

\* C4: after a successful scan maxLogLength is the largest length among the
\* matching complete lines, stored or not, and 0 when none matched.
C4_MaxLengthOverAllMatchingLines ==
    Success =>
        result[1].maxLogLength =
            MaxOf({Len(CompleteLines[i]) :
                     i \in {j \in 1..Len(CompleteLines) : Matches(CompleteLines[j])}})

\* C4 witness: a successful scan whose longest matching line is not in the
\* index (evicted, or tailLines = 0).
C4_Witness ==
    /\ Success
    /\ result[1].maxLogLength >= 3
    /\ \A i \in 1..Len(VisitAll(result[1].logIndex, 0).visited) :
          VisitAll(result[1].logIndex, 0).visited[i].length < result[1].maxLogLength
    /\ Len(MatchRecords(CompleteLines, 0)) >= 2

\* C4 witness of the other half: a non-matching line longer than every
\* matching one leaves maxLogLength alone.
C4_WitnessLongerOtherStream ==
    /\ Success
    /\ result[1].maxLogLength = 2
    /\ \E i \in 1..Len(CompleteLines) : Len(CompleteLines[i]) = 3

\* The calls a step adds to calls.
NewCalls == SubSeq(calls', Len(calls) + 1, Len(calls'))

\* C5: a line read is handed to the classifier iff it ends with the delimiter
\* and the bytes read so far, this line included, do not exceed the measured
\* length; a read that hit the end of the stream or went past the measured
\* length ends the scan at once with a successful result made of the index
\* and the counters as they were before that read, and nothing is read after
\* the return.
C5_IncompleteLineEndsScan ==
    [][ /\ pc = "done" => UNCHANGED <<pc, result, err, calls, l>>
        /\ (pc = "read" /\ NewCalls # <<>>) =>
              LET rc == NewCalls[1]
                  rb == readBytes + Len(rc.arg)
                  complete == /\ rc.arg # <<>>
                              /\ rc.arg[Len(rc.arg)] = eol
                              /\ rb <= curSize
                  classified == /\ Len(NewCalls) = 2
                                /\ NewCalls[2].op = "extractStreamFromLog"
                                /\ NewCalls[2].arg = rc.arg
              IN  /\ rc.op = "ReadBytes"
                  /\ classified <=> complete
                  /\ (rc.err = EOF \/ rb > curSize) =>
                        /\ Len(NewCalls) = 1
                        /\ pc' = "done"
                        /\ err' = nil
                        /\ result' = <<logFilterResult(l, maxLength, processedBytes)>>
                        /\ UNCHANGED <<l, maxLength, processedBytes>>
      ]_vars

\* C5 witness: the scan succeeded on a last line that ends with the delimiter
\* but ends past the measured length.
C5_Witness ==
    /\ Success
    /\ calls[Len(calls)].op = "ReadBytes"
    /\ calls[Len(calls)].err = nil
    /\ readBytes > curSize
    /\ result[1].processedBytes > 0

\* C6 as stated: a ReadBytes call that returned an error other than io.EOF
\* makes the scan return that failure and no result.
C6_NoReadErrorSwallowed ==
    \A i \in CallsOf("ReadBytes") :
        calls[i].err \notin {nil, EOF} =>
            /\ pc = "done"
            /\ result = <<>>
            /\ err = Wrap("read line", calls[i].err)

\* C6 amended: a ReadBytes call that returned an error other than io.EOF
\* makes the scan return that failure, wrapped, and no result, when the bytes
\* read so far, the bytes returned with the error included, do not exceed the
\* measured length; when they exceed it the line counts as truncated and the
\* scan returns its result.
C6_ReadErrorWithinMeasuredLength ==
    \A i \in CallsOf("ReadBytes") :
        calls[i].err \notin {nil, EOF} =>
            /\ i = Len(calls)
            /\ pc = "done"
            /\ IF Len(ReadUpTo(i)) <= curSize
               THEN result = <<>> /\ err = Wrap("read line", calls[i].err)
               ELSE Success

\* C6 witness: a read failed after complete lines were scanned, within the
\* measured length, and the scan returned the failure.
C6_Witness ==
    /\ pc = "done"
    /\ calls[Len(calls)].op = "ReadBytes"
    /\ calls[Len(calls)].err = EIO
    /\ calls[Len(calls)].arg # <<>>
    /\ Len(ReadUpTo(Len(calls))) <= curSize
    /\ processedBytes > 0
    /\ err = Wrap("read line", EIO)

\* C7: when the classifier fails on a line the scan returns the classifier's
\* error as it is and no result, and that classification is its last call.
C7_ClassifierErrorAborts ==
    \A i \in CallsOf("extractStreamFromLog") :
        calls[i].err # nil =>
            /\ i = Len(calls)
            /\ pc = "done"
            /\ result = <<>>
            /\ err = calls[i].err

\* C7 witness: the classifier failed after matching lines were put in the index.
C7_Witness ==
    /\ pc = "done"
    /\ calls[Len(calls)].op = "extractStreamFromLog"
    /\ calls[Len(calls)].err # nil
    /\ l.length >= 1
    /\ result = <<>>

\* C8: the first call is the seek to the end, which captures the length; the
\* second, made only if the first succeeded, is the seek to the start; every
\* other call comes after two successful seeks and the lines read are the
\* bytes of the file from offset 0; a failed seek is the last call and the
\* scan returns the wrapped seek failure and no result.
C8_SeeksBeforeReads ==
    /\ Len(calls) >= 1 => calls[1].op = "Seek" /\ calls[1].arg = <<"end">>
    /\ Len(calls) >= 2 =>
          calls[2].op = "Seek" /\ calls[2].arg = <<"start">> /\ calls[1].err = nil
    /\ Len(calls) >= 3 => calls[2].err = nil
    /\ \A i \in 3..Len(calls) : calls[i].op # "Seek"
    /\ (Len(calls) >= 1 /\ calls[1].err = nil) =>
          curSize <= Len(file) /\ curSize >= Len(file) - appended
    /\ ReadUpTo(Len(calls)) = SubSeq(file, 1, readBytes)
    /\ \A i \in CallsOf("Seek") :
          calls[i].err # nil =>
              /\ i = Len(calls)
              /\ pc = "done"
              /\ result = <<>>
              /\ err = Wrap(IF i = 1 THEN "seek to end of log file"
                                     ELSE "seek to front of log file", calls[i].err)

\* C8 witness: the seek to the start failed on a file that holds a complete line.
C8_Witness ==
    /\ pc = "done"
    /\ Len(calls) = 2
    /\ calls[2].err # nil
    /\ curSize >= 2
    /\ Len(CompleteLines) >= 1

\* C9 as stated: with tailLines < 0 the scan fails with the constructor's
\* invalid-capacity error.
C9_NegativeTailAlwaysInvalidCapacity ==
    (pc = "done" /\ tailLines < 0) =>
        /\ err = newCircularLinkedList(tailLines).err
        /\ err # nil
        /\ result = <<>>

\* C9 amended: with tailLines < 0 the scan never reads or classifies a line
\* and returns no result; it fails with the constructor's invalid-capacity
\* error when both seeks succeeded, and with the seek failure otherwise.
C9_NegativeTailAfterSeeks ==
    tailLines < 0 =>
        /\ CallsOf("ReadBytes") = {}
        /\ CallsOf("extractStreamFromLog") = {}
        /\ pc = "done" =>
              /\ result = <<>>
              /\ err # nil
              /\ (\A i \in CallsOf("Seek") : calls[i].err = nil)
                    => err = <<"invalid capacity">>
              /\ (\E i \in CallsOf("Seek") : calls[i].err # nil)
                    => err[1] \in {"seek to end of log file", "seek to front of log file"}

\* C9 witness: both seeks succeeded on a non-empty file and the constructor
\* refused the negative capacity.
C9_Witness ==
    /\ tailLines < 0
    /\ pc = "done"
    /\ Len(calls) = 3
    /\ calls[3].op = "newCircularLinkedList"
    /\ Len(CompleteLines) >= 1
    /\ err = <<"invalid capacity">>

\* C10: on a ring of capacity 0 Add changes nothing: after any Adds the list
\* is the one the constructor returned, Len() is 0, and VisitAll succeeds
\* without one invocation of the visitor, even of a visitor that would fail.
C10_CapacityZeroAddIsNoOp ==
    (pc = "idle" /\ l.capacity = 0) =>
        /\ l = newCircularLinkedList(0).list
        /\ ListLen(l) = 0
        /\ \A failAt \in 0..MaxCap : VisitAll(l, failAt) = [visited |-> <<>>, err |-> nil]
        /\ out.op = "Len" => out.n = 0
        /\ out.op = "VisitAll" => out.visited = <<>> /\ out.err = nil

\* C10 witness: a VisitAll on a ring of capacity 0 after several Adds.
C10_Witness ==
    /\ pc = "idle"
    /\ l.capacity = 0
    /\ Len(inserted) >= 2
    /\ out.op = "VisitAll"

\* ------------------------------------------------ claims on the ring alone
\* The records the ring holds, oldest first, by the history of Add calls.
Stored == LastN(inserted, Min(Len(inserted), l.capacity))

\* C11: VisitAll hands the stored records to the visitor oldest first; when
\* the visitor fails on its k-th invocation VisitAll has invoked it exactly k
\* times, on the k oldest records, and returns that failure; when it never
\* fails it is invoked once per stored record and VisitAll returns nil; on an
\* empty ring there is no invocation and VisitAll returns nil.
C11_VisitAllStopsAtFirstFailure ==
    pc = "idle" =>
        /\ \A failAt \in 0..(MaxCap + 1) :
              VisitAll(l, failAt) =
                  IF failAt >= 1 /\ failAt <= ListLen(l)
                  THEN [visited |-> SubSeq(Stored, 1, failAt), err |-> ErrVisit]
                  ELSE [visited |-> Stored, err |-> nil]
        /\ out.op = "VisitAll" =>
              IF out.err = nil
              THEN out.visited = Stored /\ Len(out.visited) = ListLen(l)
              ELSE /\ out.err = ErrVisit
                   /\ Len(out.visited) \in 1..ListLen(l)
                   /\ out.visited = SubSeq(Stored, 1, Len(out.visited))

\* C11 witness: on a full ring of three records that has overwritten one, the
\* visitor failed on its second invocation.
C11_Witness ==
    /\ pc = "idle"
    /\ l.capacity = 3
    /\ Len(inserted) >= 4
    /\ out.op = "VisitAll"
    /\ out.err = ErrVisit
    /\ Len(out.visited) = 2

\* C13: on a constructed ring 0 <= length <= capacity always holds, and no
\* call decreases length or changes capacity.
C13_SizeWithinCapacity ==
    /\ [](pc = "idle" => (0 <= l.length /\ l.length <= l.capacity))
    /\ [][pc = "idle" => (l'.length >= l.length /\ l'.capacity = l.capacity)]_vars

\* C13 witness: a full ring of capacity >= 2 after more Adds than capacity
\* and a VisitAll.
C13_Witness ==
    /\ pc = "idle"
    /\ l.capacity >= 2
    /\ l.length = l.capacity
    /\ Len(inserted) > l.capacity
    /\ out.op = "VisitAll"

\* The array form of the ring: a sequence of capacity slots with the index
\* head of the oldest record (counted from 0) and the number size of records.
ArrayNew(cap) ==
    [capacity |-> cap, head |-> 0, size |-> 0,
     buf |-> [i \in 1..cap |-> [offset |-> 0, length |-> 0]]]

\* Add on the array: nothing with capacity 0; the slot (head + size) mod
\* capacity while size < capacity; otherwise the slot head, and head moves on
\* by one.
ArrayAdd(a, val) ==
    IF a.capacity = 0 THEN a
    ELSE IF a.size < a.capacity
    THEN [a EXCEPT !.buf[((a.head + a.size) % a.capacity) + 1] = val,
                   !.size = @ + 1]
    ELSE [a EXCEPT !.buf[a.head + 1] = val,
                   !.head = (@ + 1) % a.capacity]

ArrayLen(a) == a.size

\* The records of the array from the slot head on, size of them.
ArrayVisitAll(a) ==
    [i \in 1..a.size |-> a.buf[((a.head + i - 1) % a.capacity) + 1]]

\* The array after the Add calls of vals, in order, on a new array.
RECURSIVE ArrayAfter(_, _)
ArrayAfter(vals, cap) ==
    IF vals = <<>> THEN ArrayNew(cap)
    ELSE ArrayAdd(ArrayAfter(SubSeq(vals, 1, Len(vals) - 1), cap), vals[Len(vals)])

\* C16: after every step of the same Add calls on the same capacity the
\* linked ring and the array report the same Len() and the same sequence of
\* records from oldest to newest.
C16_ListEquivalentToArray ==
    pc = "idle" =>
        LET a == ArrayAfter(inserted, l.capacity) IN
        /\ ArrayLen(a) = ListLen(l)
        /\ ArrayVisitAll(a) = VisitAll(l, 0).visited

\* C16 witness: both forms are full with capacity 3 and the array's head has
\* moved off slot 0.
C16_Witness ==
    /\ pc = "idle"
    /\ l.capacity = 3
    /\ ListLen(l) = 3
    /\ ArrayAfter(inserted, l.capacity).head = 2
    /\ VisitAll(l, 0).visited[1] # VisitAll(l, 0).visited[3]

\* The node reached from node p by following next k times.
RECURSIVE NextN(_, _, _)
NextN(lst, p, k) == IF k = 0 THEN p ELSE NextN(lst, lst.nodes[p].next, k - 1)

\* The nodes reachable from current.
Reachable(lst) == {NextN(lst, lst.current, k) : k \in 0..Len(lst.nodes)}

\* C18: on a non-empty ring of capacity >= 1 the nodes reachable from current
\* are length distinct nodes on one cycle (length steps of next from a node,
\* and no fewer, lead back to it); no more nodes are allocated than capacity;
\* an Add on a full ring allocates nothing and changes no next pointer, only
\* current, which moves to the next node, and that node's value.
C18_SingleCycleNoAllocationWhenFull ==
    /\ [](  (pc = "idle" /\ l.capacity >= 1 /\ l.length >= 1) =>
              /\ Len(l.nodes) <= l.capacity
              /\ Cardinality(Reachable(l)) = l.length
              /\ \A n \in Reachable(l) :
                    /\ NextN(l, n, l.length) = n
                    /\ \A k \in 1..(l.length - 1) : NextN(l, n, k) # n )
    /\ [][ (pc = "idle" /\ l.capacity >= 1 /\ l.length = l.capacity
                /\ inserted' # inserted) =>
              /\ Len(l'.nodes) = Len(l.nodes)
              /\ \A n \in 1..Len(l.nodes) : l'.nodes[n].next = l.nodes[n].next
              /\ l'.current = l.nodes[l.current].next
              /\ \A n \in 1..Len(l.nodes) :
                    n # l'.current => l'.nodes[n].value = l.nodes[n].value
              /\ l'.nodes[l'.current].value = inserted'[Len(inserted')]
              /\ l'.head = l.head /\ l'.length = l.length /\ l'.capacity = l.capacity
       ]_vars

\* C18 witness: a ring of capacity 3 holding three nodes after two overwrites.
C18_Witness ==
    /\ pc = "idle"
    /\ l.capacity = 3
    /\ Len(l.nodes) = 3
    /\ Len(inserted) = 5
    /\ Cardinality(Reachable(l)) = 3

\* The node that holds the oldest stored record: the one VisitAll visits first.
OldestNode(lst) == lst.nodes[lst.current].next

\* C20 as stated: on a non-empty ring head is the node that holds the oldest
\* stored record, the first node VisitAll visits, also after overwrites.
C20_HeadIsOldestNode ==
    (pc = "idle" /\ l.length >= 1) =>
        /\ l.head = OldestNode(l)
        /\ l.nodes[l.head].value = VisitAll(l, 0).visited[1]

\* ------------------------------------------- further claims on the scan
\* The loop of filterLogByStream on the bytes f that nobody appends to and
\* whose reads do not fail, from the reader offset pos with the locals lst,
\* ml, pb and rb, for the measured length cs: what the call returns.
RECURSIVE ScanFrozen(_, _, _, _, _, _, _)
ScanFrozen(f, cs, pos, lst, ml, pb, rb) ==
    LET r == CHOOSE x \in ReadBytes(f, pos) : x.err # EIO
        lineLength == Len(r.line)
    IN  IF lineIncomplete(r.err, rb + lineLength, cs)
        THEN [result |-> <<logFilterResult(lst, ml, pb)>>, err |-> nil]
        ELSE LET c == extractStreamFromLog(r.line) IN
             IF c.err # nil THEN [result |-> <<>>, err |-> c.err]
             ELSE IF c.stream = wantStream
             THEN ScanFrozen(f, cs, pos + lineLength,
                             Add(lst, newIndexItem(pb, lineLength)),
                             newMaxLength(ml, lineLength),
                             newProcessedBytes(pb, r.line), rb + lineLength)
             ELSE ScanFrozen(f, cs, pos + lineLength, lst, ml,
                             newProcessedBytes(pb, r.line), rb + lineLength)

\* What the call returns on the source frozen at the measured length.
FrozenReturn ==
    LET f == SubSeq(file, 1, curSize) IN
    ScanFrozen(f, Len(f), 0, newCircularLinkedList(tailLines).list, 0, 0, 0)

\* The items of a returned index, oldest first.
Records == VisitAll(result[1].logIndex, 0).visited

\* C14: whatever the writer appended and whenever, a scan that returns a
\* result, or the classifier's error, returns what it returns on the source
\* frozen at the measured length; no record of the index ends past the
\* measured length and processedBytes does not exceed it.
C14_ResultOfFrozenSource ==
    /\ (Success \/ (pc = "done" /\ calls[Len(calls)].op = "extractStreamFromLog")) =>
          /\ result = FrozenReturn.result
          /\ err = FrozenReturn.err
    /\ Success =>
          /\ result[1].processedBytes <= curSize
          /\ result[1].maxLogLength <= curSize
          /\ \A i \in 1..Len(Records) :
                Records[i].offset + Records[i].length <= curSize

\* C14 witness: the scan kept a line and then read a line that the writer
\* completed after the measurement, so that it ends past the measured length.
C14_Witness ==
    /\ Success
    /\ appended >= 1
    /\ Len(file) > curSize
    /\ file[Len(file)] = eol
    /\ readBytes = Len(file)
    /\ Len(calls[Len(calls)].arg) >= 2
    /\ Len(Records) >= 1

\* C17: the records of a returned index are byte ranges of the scanned
\* prefix: length between 1 and maxLogLength, offset >= 0, end at or before
\* processedBytes, and each record starts at or after the end of the one
\* before it.
C17_RecordsAreDisjointRanges ==
    Success =>
        /\ \A i \in 1..Len(Records) :
              /\ Records[i].length >= 1
              /\ Records[i].length <= result[1].maxLogLength
              /\ Records[i].offset >= 0
              /\ Records[i].offset + Records[i].length <= result[1].processedBytes
        /\ \A i \in 1..(Len(Records) - 1) :
              Records[i + 1].offset >= Records[i].offset + Records[i].length

\* C17 witness: two records are returned with a complete line of the other
\* stream between them.
C17_Witness ==
    /\ Success
    /\ Len(Records) = 2
    /\ Records[2].offset > Records[1].offset + Records[1].length
    /\ result[1].processedBytes = Records[2].offset + Records[2].length

\* C15: once in the loop the scan returns; when no call failed it returns a
\* result, and the call that ended the loop is a read that hit the end of the
\* stream or went past the measured length, with no bytes when the file ends
\* right after a delimiter that the scan has reached.
C15_ScanTerminates ==
    /\ (pc = "read") ~> (pc = "done")
    /\ []( (/\ pc = "done"
            /\ CallsOf("ReadBytes") # {}
            /\ \A i \in 1..Len(calls) : calls[i].err \in {nil, EOF}) =>
              LET last == calls[Len(calls)] IN
              /\ Success
              /\ last.op = "ReadBytes"
              /\ last.err = EOF \/ readBytes > curSize
              /\ (last.err = nil) => last.arg[Len(last.arg)] = eol
              /\ (last.err = EOF /\ result[1].processedBytes = Len(file))
                    => last.arg = <<>> )

\* C15 witness: the scan of a file of two lines that ends with a delimiter
\* returned after a read of no bytes at the end of the stream.
C15_Witness ==
    /\ Success
    /\ appended >= 1
    /\ Len(file) >= 4
    /\ result[1].processedBytes = Len(file)
    /\ calls[Len(calls)] = call("ReadBytes", <<>>, EOF)
    /\ Cardinality(CallsOf("extractStreamFromLog")) >= 2

\* C12: when nobody wrote to the source, a second scan with the same
\* arguments that returns a result returns the records, in the same order, the
\* maxLogLength and the processedBytes of the first, wherever the first scan
\* left the offset of the source; the two scans return the same error as well
\* unless a seek or a read failed.
C12_SecondScanSameResult ==
    (run = 2 /\ pc = "done" /\ appended = 0) =>
        /\ (prev.err = nil /\ err = nil) =>
              /\ VisitAll(result[1].logIndex, 0) = VisitAll(prev.result[1].logIndex, 0)
              /\ ListLen(result[1].logIndex) = ListLen(prev.result[1].logIndex)
              /\ result[1].maxLogLength = prev.result[1].maxLogLength
              /\ result[1].processedBytes = prev.result[1].processedBytes
        /\ (/\ \A i \in 1..Len(calls) : calls[i].err # EIO
            /\ prev.err = nil \/ Len(prev.err) = 1) =>
              /\ err = prev.err
              /\ result = prev.result

\* C12 witness: the second scan returned a record and left lines out, after
\* the first scan had left the offset of the source past its start.
C12_Witness ==
    /\ run = 2
    /\ Success
    /\ appended = 0
    /\ prev.err = nil
    /\ ListLen(result[1].logIndex) >= 1
    /\ result[1].processedBytes >= 4
    /\ result[1].processedBytes < Len(file)

\* ------------------------------------------------- unmanaged serializer
ErrEncode == <<"encode failed">>

\* A runtime.Object: hasMeta tells whether meta.Accessor finds its metadata;
\* managedFields is the managed-fields metadata, <<>> when nil.
Managers == {"kubectl", "controller"}
Object ==
    [hasMeta : {TRUE}, name : {"a", "b"},
     managedFields : UNION {[1..n -> Managers] : n \in 0..MaxManaged}]
    \cup [hasMeta : {FALSE}, name : {"a", "b"}, managedFields : {<<>>}]

\* meta.Accessor(obj): fails on an object that exposes no metadata.
Accessor(h, o) ==
    IF h[o].hasMeta THEN [ptr |-> o, err |-> nil]
    ELSE [ptr |-> 0, err |-> <<"object does not implement the Object interfaces">>]

\* obj.DeepCopyObject(): a new object with the contents of obj.
DeepCopyObject(h, o) == [heap |-> Append(h, h[o]), ptr |-> Len(h) + 1]

\* a.SetManagedFields(mf)
SetManagedFields(h, o, mf) == [h EXCEPT ![o].managedFields = mf]

\* Encode that clears the managed fields of the caller's object itself.
EncodeInPlace(h, o, innerRet) ==
    IF Accessor(h, o).err = nil
    THEN [heap |-> SetManagedFields(h, Accessor(h, o).ptr, <<>>),
          innerObj |-> o, ret |-> innerRet]
    ELSE [heap |-> h, innerObj |-> o, ret |-> innerRet]

\* serializer.Encode(obj, w), innerRet being what s.inner.Encode returns: the
\* heap afterwards, the object handed to s.inner.Encode, and the return.
Encode(h, o, innerRet) ==
    IF Accessor(h, o).err = nil
    THEN LET c == DeepCopyObject(h, o)
             a == Accessor(c.heap, c.ptr)
         IN  [heap |-> SetManagedFields(c.heap, a.ptr, <<>>),
              innerObj |-> c.ptr, ret |-> innerRet]
    ELSE [heap |-> h, innerObj |-> o, ret |-> innerRet]

\* The caller holds two objects and a serializer made by NewSerializer.
CallerObjects == {1, 2}

InitEncode ==
    /\ l = emptyList
    /\ inserted = <<>>
    /\ out = noCall
    /\ file = <<>>
    /\ rpos = 0
    /\ appended = 0
    /\ tailLines = 0
    /\ wantStream = "stdout"
    /\ pc = "idle"
    /\ curSize = 0
    /\ readBytes = 0
    /\ processedBytes = 0
    /\ maxLength = 0
    /\ result = <<>>
    /\ err = nil
    /\ calls = <<>>
    /\ run = 1
    /\ prev = noPrev
    /\ heap \in [CallerObjects -> Object]
    /\ obj = 0
    /\ inner = noInner
    /\ encRet = nil
    /\ nEnc = 0

\* The caller encodes one of its objects; the inner encoder returns nil or
\* an error.
EncodeCall ==
    /\ nEnc < MaxEncodes
    /\ \E o \in CallerObjects, innerRet \in {nil, ErrEncode} :
        LET r == Encode(heap, o, innerRet) IN
        /\ heap' = r.heap
        /\ obj' = o
        /\ inner' = [obj |-> r.innerObj, seen |-> <<r.heap[r.innerObj]>>, ret |-> innerRet]
        /\ encRet' = r.ret
    /\ nEnc' = nEnc + 1
    /\ UNCHANGED <<l, ringVars, scanVars, callerVars>>

NextEncode == EncodeCall

SpecEncode == InitEncode /\ [][NextEncode]_vars

\* C19: an Encode call changes no object that existed before it, so the
\* caller's is as it was; for an object with metadata s.inner.Encode gets a new
\* object equal to the caller's but for its managed fields, which are nil,
\* while the caller's keeps its own; for an object without metadata it gets
\* the caller's object itself and nothing is allocated; Encode returns what
\* s.inner.Encode returned.
C19_EncodeLeavesCallerObject ==
    [][ nEnc' # nEnc =>
          /\ \A o \in 1..Len(heap) : heap'[o] = heap[o]
          /\ heap'[obj'] = heap[obj']
          /\ IF heap[obj'].hasMeta
             THEN /\ inner'.obj = Len(heap) + 1
                  /\ Len(heap') = Len(heap) + 1
                  /\ inner'.obj # obj'
                  /\ inner'.seen = <<[heap[obj'] EXCEPT !.managedFields = <<>>]>>
             ELSE /\ inner'.obj = obj'
                  /\ Len(heap') = Len(heap)
                  /\ inner'.seen = <<heap[obj']>>
          /\ encRet' = inner'.ret
      ]_vars

\* C19 witness: Encode of an object with two managed-fields entries returned
\* the inner encoder's error; the inner encoder saw none of the entries and
\* the caller's object still has both.
C19_Witness ==
    /\ nEnc >= 1
    /\ heap[obj].hasMeta
    /\ Len(heap[obj].managedFields) = 2
    /\ inner.obj # obj
    /\ inner.seen[1].managedFields = <<>>
    /\ encRet = ErrEncode
====
